---- MODULE Spec2Model ----
(***************************************************************************)
(* Model of sbrick.js (src/src/sbrick.js): the SBrick class, its four      *)
(* ports, the promise queue it submits every transport operation to, the   *)
(* keepalive interval, the firmware check of connect, the chain of         *)
(* disconnect and the promise chains of drive, quickDrive, stop,           *)
(* getSensor, getBattery and getTemp.                                      *)
(*                                                                         *)
(* Every `.then` callback of a promise chain is one atomic step (a         *)
(* JavaScript microtask runs to completion); the steps of different calls  *)
(* interleave freely, and the application can make a call between any two  *)
(* callbacks of the calls it made in the same turn of the event loop.      *)
(* What the event loop brings in as a task of its own (a tick of the       *)
(* interval, the settling of a transport promise, the connection coming or *)
(* going) runs only when no callback is left to run.  A transport          *)
(* operation is in flight from the moment the queue runs its generator     *)
(* until the transport settles it.                                         *)
(***************************************************************************)
EXTENDS Integers, Sequences, FiniteSets, TLC

VARIABLES
    ports,      \* this.ports: portId -> [power, direction, mode, pvmActive, busy]
    queue,      \* this.queue: operations submitted and not yet started
    pending,    \* operations whose generator ran and whose promise is not settled
    nextSeq,    \* submission number the next queue.add gets
    started,    \* history: submission numbers in the order the operations started
    wire,       \* history: per port the last frame handed to the transport that
                \* addresses it, and the last PVM frame
    completed,  \* history: submission numbers in the order the operations settled
    failed,     \* history: submission numbers of the operations that were rejected
    invalid,    \* history: number of calls rejected for their arguments
    swallowed,  \* history: number of calls that met an error and resolved
                \* with undefined
    given,        \* the argument a function of the class is evaluated on by itself
    returned,     \* and what it returned
    calls,      \* the public calls in progress, each with its position in its chain
    budget,     \* number of public calls the application still makes
    connected,  \* webbluetooth.isConnected()
    connecting, \* position of connect(): "idle", "firmware" (version read pending)
    keepalive,  \* this.keepalive: handle of the last interval set, 0 for null
    timers,     \* handles of the intervals that are running
    nprobes,    \* number of keepalive probes submitted so far
    nconnects,  \* number of connect() calls so far
    debug,      \* this._debug
    conns       \* history: per connect() call, the firmware revision string the
                \* device reported and how the promise of connect() settled

vars == <<ports, queue, pending, nextSeq, started, wire, completed, failed, invalid,
          swallowed, given, returned,
          calls, budget, connected, connecting, keepalive, timers, nprobes, nconnects,
          debug, conns>>

-----------------------------------------------------------------------------
(* Bounds of the model *)

MaxCalls == 2
MaxPortCalls == 3
MaxActive == 2
MaxProbes == 1
MaxConnects == 1
MaxReconnects == 2
MaxDigits == 2
MaxTicks == 3
MaxFailures == 1

(* Inputs the calls are made with *)
PortInputs == {0}
DirInputs == {1}
PowerInputs == {-40, 300}
StopInputs == {<<0>>, <<1, 0>>}
QuickInputs ==
    { <<[portId |-> 0, direction |-> 0, power |-> 300],
        [portId |-> 1, direction |-> 1, power |-> -40]>> }
SchedPowerInputs == {300}
SchedStopInputs == {<<1, 0>>}
\* firmware revision strings "4.10", "4.17" and "4.2": the number before the
\* point and the digits after it
FirmwareInputs ==
    { [major |-> 4, minor |-> <<1, 0>>],
      [major |-> 4, minor |-> <<1, 7>>],
      [major |-> 4, minor |-> <<2>>] }
SchedFirmwareInputs == { [major |-> 4, minor |-> <<1, 7>>] }
\* arguments of drive with the properties that are missing (undefined), of
\* quickDrive with an array or a single object, of stop with ids or null
DriveArgs ==
    { [portId |-> 0, direction |-> 1, power |-> 300, missing |-> {}],
      [portId |-> 0, direction |-> 1, power |-> 0, missing |-> {"power"}],
      [portId |-> 0, direction |-> 1, power |-> 300, missing |-> {"portId"}],
      [portId |-> 0, direction |-> 0, power |-> 0,
       missing |-> {"portId", "direction", "power"}] }
QuickArgs ==
    { [isArray |-> TRUE,
       objs |-> <<[portId |-> 0, direction |-> 0, power |-> 300]>>],
      [isArray |-> FALSE,
       objs |-> <<[portId |-> 0, direction |-> 0, power |-> 300]>>] }
\* numbers as JavaScript prints them: a sign and the decimal digits, with no
\* leading zero; every integer of up to MaxDigits digits, 999, and 10^21
DigitInputs ==
    {d \in UNION {[1 .. n -> 0 .. 9] : n \in 1 .. MaxDigits} : Len(d) = 1 \/ d[1] # 0}
NumberInputs ==
    {[negative |-> n, digits |-> d] :
        n \in BOOLEAN,
        d \in DigitInputs \cup {<<9, 9, 9>>, <<1>> \o [i \in 1 .. 21 |-> 0]}}
\* powers and quickDrive arguments for the frames and the clamping
ClampInputs == {-40, 0, 999}
QuickFrameInputs ==
    { <<[portId |-> 0, direction |-> 0, power |-> 255],
        [portId |-> 1, direction |-> 0, power |-> 255]>>,
      <<[portId |-> 2, direction |-> 1, power |-> -40]>> }
SensorInputs == {1}
StopArgs ==
    { [isNull |-> FALSE, ids |-> <<1, 0>>],
      [isNull |-> TRUE, ids |-> <<>>] }

-----------------------------------------------------------------------------
(* Constants of the program *)

FIRMWARE_COMPATIBILITY == 417   \* 4.17, in hundredths

CMD_BREAK == 0
CMD_DRIVE == 1
CMD_ADC == 15
CMD_ADC_VOLT == 8
CMD_ADC_TEMP == 9
CMD_PVM == 44

INPUT == "input"
OUTPUT == "output"

CLOCKWISE == 0
COUNTERCLOCKWISE == 1

MIN == 0
MAX == 255
MAX_QD == 127

PortIds == 0 .. 3

PORTS == [p \in PortIds |-> [hexId |-> p, channelHexIds |-> <<2 * p, 2 * p + 1>>]]

maxConcurrent2 == 1 + 1

maxConcurrent == 1

_debug == FALSE

-----------------------------------------------------------------------------
(* Helpers *)

Abs(x) == IF x < 0 THEN -x ELSE x

Min2(a, b) == IF a < b THEN a ELSE b

Max2(a, b) == IF a > b THEN a ELSE b

\* the value of a row of decimal digits
RECURSIVE DigitsValue(_)
DigitsValue(d) ==
    IF Len(d) = 0 THEN 0
    ELSE DigitsValue(SubSeq(d, 1, Len(d) - 1)) * 10 + d[Len(d)]

\* parseInt( x ) of a number without fraction: the number is turned into a
\* string and the digits at its start are read; from 10^21 on the string is
\* in exponent form ("1e+21", "1.5e+22") and the digits at its start are
\* the first digit alone.  The value is capped at 1000, which is enough for
\* Math.min( ..., MAX ) behind it.
parseIntPlain(digits) ==
    IF Len(digits) > 3 THEN 1000 ELSE DigitsValue(digits)

parseInt(digits) ==
    IF Len(digits) > 21 THEN digits[1] ELSE parseIntPlain(digits)

\* Math.min(Math.max(parseInt(Math.abs(power)), MIN), MAX) of a number given
\* by sign and digits: Math.abs drops the sign
ClampNumber(number) == Min2(Max2(parseInt(number.digits), MIN), MAX)

\* Math.min(Math.max(parseInt(Math.abs(power)), MIN), MAX) of a power that
\* is held as an integer here: it is below 10^21, and parseInt of its
\* absolute value is that value
ClampPower(power) == Min2(Max2(Abs(power), MIN), MAX)

\* a property that an object of the application does not have, and the
\* number that is not a number; both stand outside the integers the model
\* computes with
undefined == -1000

NaN == -1

\* the same statement on the power of a quickDrive entry, which is not
\* checked: Math.abs( undefined ) is NaN, parseInt of it is NaN, and
\* Math.max and Math.min of NaN and a number are NaN
ClampAny(power) == IF power = undefined THEN NaN ELSE ClampPower(power)

\* what Uint8Array stores for a number: 0 for NaN, else the number modulo 256
ToUint8(x) == IF x = NaN THEN 0 ELSE x % 256

\* direction ? COUNTERCLOCKWISE : CLOCKWISE
ToDirection(direction) == IF direction # 0 THEN COUNTERCLOCKWISE ELSE CLOCKWISE

_getPortChannels(portId) == PORTS[portId].channelHexIds

_getPortData(P, portId) ==
    [portId |-> portId, direction |-> P[portId].direction, power |-> P[portId].power]

_allPortsAreIdleAlways(P) == TRUE

_allPortsAreIdle(P) == \A p \in PortIds : ~P[p].busy

_setAllPortsBusy(P) == [p \in PortIds |-> [P[p] EXCEPT !.busy = TRUE]]

\* the byte with the rescaled power rounded to the nearest integer
QuickDriveByteRound(port) ==
    IF port.mode = OUTPUT
    THEN ((2 * port.power * MAX_QD + MAX) \div (2 * MAX)) * 2 + port.direction
    ELSE 0

\* parseInt( parseInt(port.power/MAX*MAX_QD).toString(2) + port.direction, 2 )
\* for an output port, null (written as 0 by Uint8Array) for an input port
\* (a power of NaN prints as "NaN", which parseInt( ..., 2 ) reads as NaN,
\* written as 0 too)
QuickDriveByte(port) ==
    IF port.mode = OUTPUT /\ port.power # NaN
    THEN ((port.power * MAX_QD) \div MAX) * 2 + port.direction
    ELSE 0

\* the channels of every port in input mode, whatever its pvmActive flag
RECURSIVE PvmChannelsByMode(_, _)
PvmChannelsByMode(P, i) ==
    IF i > 3 THEN <<>>
    ELSE (IF P[i].mode = INPUT THEN _getPortChannels(i) ELSE <<>>)
         \o PvmChannelsByMode(P, i + 1)

\* the command of a PVM frame: the channels of every port with pvmActive
RECURSIVE PvmChannels(_, _)
PvmChannels(P, i) ==
    IF i > 3 THEN <<>>
    ELSE (IF P[i].pvmActive THEN _getPortChannels(i) ELSE <<>>) \o PvmChannels(P, i + 1)

PvmCommand(P) == <<CMD_PVM>> \o PvmChannels(P, 0)

\* the forEach of _pvm: set pvmActive where it differs from the request
RECURSIVE PvmApply(_, _, _)
PvmApply(P, req, i) ==
    IF i > Len(req) THEN P
    ELSE PvmApply([P EXCEPT ![req[i].portId].pvmActive = req[i].pvmActive], req, i + 1)

\* update_pvm set whatever the flags were
PvmChangedAlways(P, req, i) == TRUE

RECURSIVE PvmChanged(_, _, _)
PvmChanged(P, req, i) ==
    IF i > Len(req) THEN FALSE
    ELSE \/ P[req[i].portId].pvmActive # req[i].pvmActive
         \/ PvmChanged([P EXCEPT ![req[i].portId].pvmActive = req[i].pvmActive], req, i + 1)

\* the first forEach of stop: the pvm request of each requested port
StopPvmRequest(P, portIds) ==
    [i \in 1 .. Len(portIds) |->
        [portId |-> portIds[i], pvmActive |-> (P[portIds[i]].mode # INPUT)]]

\* the second forEach of stop: zero the power of the output ports ...
RECURSIVE StopPortsAll(_, _, _)
StopPortsAll(P, portIds, i) ==
    IF i > Len(portIds) THEN P
    ELSE StopPortsAll([P EXCEPT ![portIds[i]].power = 0], portIds, i + 1)

RECURSIVE StopPorts(_, _, _)
StopPorts(P, portIds, i) ==
    IF i > Len(portIds) THEN P
    ELSE StopPorts(IF P[portIds[i]].mode = OUTPUT
                   THEN [P EXCEPT ![portIds[i]].power = 0]
                   ELSE P, portIds, i + 1)

\* ... and push their hexId behind CMD_BREAK
RECURSIVE StopIdsNoFilter(_, _, _)
StopIdsNoFilter(P, portIds, i) ==
    IF i > Len(portIds) THEN <<>>
    ELSE <<PORTS[portIds[i]].hexId>> \o StopIdsNoFilter(P, portIds, i + 1)

RECURSIVE StopIds(_, _, _)
StopIds(P, portIds, i) ==
    IF i > Len(portIds) THEN <<>>
    ELSE (IF P[portIds[i]].mode = OUTPUT THEN <<PORTS[portIds[i]].hexId>> ELSE <<>>)
         \o StopIds(P, portIds, i + 1)

StopCommand(P, portIds) == <<CMD_BREAK>> \o StopIds(P, portIds, 1)

\* the first forEach of quickDrive: record power and direction of the listed ports
RECURSIVE QuickApply(_, _, _)
QuickApply(P, objs, i) ==
    IF i > Len(objs) THEN P
    ELSE QuickApply([P EXCEPT ![objs[i].portId].power = ClampAny(objs[i].power),
                              ![objs[i].portId].direction = ToDirection(objs[i].direction)],
                    objs, i + 1)

-----------------------------------------------------------------------------
(* The promise queue: new Queue(maxConcurrent, maxQueue)                   *)

\* the part of the state queue.add and the generators work on
Cur ==
    [ports |-> ports, queue |-> queue, pending |-> pending,
     nextSeq |-> nextSeq, started |-> started, wire |-> wire]

Apply(S) ==
    /\ ports' = S.ports
    /\ queue' = S.queue
    /\ pending' = S.pending
    /\ nextSeq' = S.nextSeq
    /\ started' = S.started
    /\ wire' = S.wire

\* what the generator of a queued operation does when the queue runs it:
\* the port fields it writes and the frame it hands to the transport
\* generators that write their frame without touching the busy flags
GeneratorPortsNoClear(P, item) == P

\* generators that clear the busy flags whatever they write
GeneratorPortsAnyKind(P, item) ==
    IF item.kind = "drive"
    THEN [P EXCEPT ![item.portId].busy = FALSE]
    ELSE [p \in PortIds |-> [P[p] EXCEPT !.busy = FALSE]]

GeneratorPorts(P, item) ==
    CASE item.kind = "drive" -> [P EXCEPT ![item.portId].busy = FALSE]
      [] item.kind = "quick" -> [p \in PortIds |-> [P[p] EXCEPT !.busy = FALSE]]
      [] OTHER -> P

GeneratorFrame(P, item) ==
    CASE item.kind = "drive" ->
            <<CMD_DRIVE, PORTS[item.portId].hexId, P[item.portId].direction,
              ToUint8(P[item.portId].power)>>
      [] item.kind = "quick" ->
            <<QuickDriveByte(P[0]), QuickDriveByte(P[1]),
              QuickDriveByte(P[2]), QuickDriveByte(P[3])>>
      [] OTHER -> item.command

\* what the device has been sent: nothing yet, ...
NoFrame == [kind |-> "none", frame |-> <<>>]

NoWire == [cmd |-> [p \in PortIds |-> NoFrame], pvm |-> NoFrame]

\* the ports a frame addresses: the port of a drive frame, the ports listed
\* in a break frame, the four ports of a quick-drive frame
Addressed(kind, frame) ==
    CASE kind = "drive" -> {p \in PortIds : PORTS[p].hexId = frame[2]}
      [] kind = "break" ->
            {p \in PortIds : \E i \in 2 .. Len(frame) : PORTS[p].hexId = frame[i]}
      [] kind = "quick" -> PortIds
      [] OTHER -> {}

\* ... and then the frame that writeCharacteristicValue is called with
WireWrite(W, kind, frame) ==
    [cmd |-> [p \in PortIds |->
                IF p \in Addressed(kind, frame)
                THEN [kind |-> kind, frame |-> frame] ELSE W.cmd[p]],
     pvm |-> IF kind = "pvm" THEN [kind |-> kind, frame |-> frame] ELSE W.pvm]

\* the position in the queue of the operation that runs next
QueueShiftLast(q) == Len(q)

QueueShift(q) == 1

\* whether the queue goes on to the next operation once one has settled
DequeueOnSettleOkOnly(ok) == ok

DequeueOnSettle(ok) == TRUE

Dequeue(S) ==
    IF Cardinality(S.pending) >= maxConcurrent \/ S.queue = <<>>
    THEN S
    ELSE LET k == QueueShift(S.queue)
             item == S.queue[k]
             rest == [j \in 1 .. Len(S.queue) - 1 |->
                         IF j < k THEN S.queue[j] ELSE S.queue[j + 1]]
         IN [S EXCEPT
               !.queue = rest,
               !.ports = GeneratorPorts(S.ports, item),
               !.pending = @ \cup
                   {[seq |-> item.seq, kind |-> item.kind, behind |-> item.behind,
                     frame |-> GeneratorFrame(S.ports, item),
                     phase |-> "write",
                     modes |-> [p \in PortIds |-> S.ports[p].mode]]},
               !.started = Append(@, item.seq),
               !.wire = WireWrite(@, item.kind, GeneratorFrame(S.ports, item))]

\* history: the operation that is running when another one is submitted
Running(pend) == IF pend = {} THEN 0 ELSE (CHOOSE op \in pend : TRUE).seq

\* queue.add( generator ): push, then run it at once when a slot is free
QueueAdd(S, kind, portId, command) ==
    Dequeue([S EXCEPT
        !.queue = Append(@, [seq |-> S.nextSeq, kind |-> kind,
                             portId |-> portId, command |-> command,
                             behind |-> Running(S.pending)]),
        !.nextSeq = @ + 1])

\* a length that never counts the probes that wait
getQueueLengthNoProbes == Len(SelectSeq(queue, LAMBDA it : it.kind # "ka"))

getQueueLength == Len(queue)

-----------------------------------------------------------------------------
(* Initial state: after the constructor *)

NoCall ==
    [kind |-> "none", portIds |-> <<>>, objs |-> <<>>, pc |-> "none",
     pvmReq |-> <<>>, waitSeq |-> 0, frameSeq |-> 0, pvmSeq |-> 0, modesAtCall |-> <<>>,
     idleAtCall |-> TRUE, dataAtCall |-> <<>>, after |-> "none",
     status |-> "none", data |-> <<>>]

NoNumber == [negative |-> FALSE, digits |-> <<>>]

NoResult == [done |-> FALSE, value |-> 0]

InitProgram(ncalls, flag) ==
    /\ ports = [p \in PortIds |->
                  [power |-> MIN, direction |-> CLOCKWISE, mode |-> OUTPUT,
                   pvmActive |-> FALSE, busy |-> FALSE]]
    /\ queue = <<>>
    /\ pending = {}
    /\ nextSeq = 1
    /\ started = <<>>
    /\ wire = NoWire
    /\ completed = <<>>
    /\ failed = {}
    /\ invalid = 0
    /\ swallowed = 0
    /\ calls = [c \in 1 .. MaxActive |-> NoCall]
    /\ budget = ncalls
    /\ connected = FALSE
    /\ connecting = "idle"
    /\ keepalive = 0
    /\ timers = {}
    /\ nprobes = 0
    /\ nconnects = 0
    /\ debug = flag
    /\ conns = <<>>

InitFlag(ncalls, flag) ==
    /\ InitProgram(ncalls, flag)
    /\ given = NoNumber
    /\ returned = NoResult

InitWith(ncalls) == InitFlag(ncalls, _debug)

Init == InitWith(MaxCalls)

\* the application has set _debug or left it alone before it connects
InitConn == \E flag \in BOOLEAN : InitFlag(MaxCalls, flag)

InitPorts == InitWith(MaxPortCalls)

-----------------------------------------------------------------------------
(* The public calls *)

queueVars == <<ports, queue, pending, nextSeq, started, wire>>

histVars == <<completed, failed, invalid, swallowed, given, returned>>

connVars == <<connected, connecting, keepalive, timers, nprobes, nconnects,
              debug, conns>>

\* .catch( e => { this._error(e) } ): throw again unless _debug
ErrorStatus == IF debug THEN "undefined" ELSE "rejected"

\* the promise of a call whose chain met an error resolves with undefined
\* when _error only logs
Swallows == IF ErrorStatus = "undefined" THEN 1 ELSE 0

\* the callbacks that are ready belong to calls made in this turn of the
\* event loop: none of them was resumed by the settling of a PVM frame, which
\* is a turn with no code of the application in it until the chain has ended
AppTurn ==
    \A c \in DOMAIN calls :
        calls[c].pc \in {"prep", "pvm", "act", "ret"} => calls[c].pvmSeq = 0

\* the application makes a call once connect() has connected the device; the
\* call takes the first slot that holds no call in progress
CanCall ==
    /\ budget > 0
    /\ nconnects > 0
    /\ AppTurn
    /\ \E c \in DOMAIN calls : calls[c].pc = "none"

Slot == CHOOSE c \in DOMAIN calls :
            /\ calls[c].pc = "none"
            /\ \A d \in DOMAIN calls : calls[d].pc = "none" => c <= d

\* a call whose chain has settled leaves calls; the calls behind it move up
Settled(C) ==
    LET inProgress == SelectSeq(C, LAMBDA r : r.pc # "done")
    IN [c \in DOMAIN C |-> IF c <= Len(inProgress) THEN inProgress[c] ELSE NoCall]

\* the callbacks that are ready run before the event loop takes its next task
MicrotasksDone ==
    \A c \in DOMAIN calls : calls[c].pc \notin {"prep", "pvm", "act", "ret"}

\* this.ports[ portId ] is an object: the id is one of the four ports
InRange(portIds) == \A i \in DOMAIN portIds : portIds[i] \in PortIds

\* the first id of the list for which this.ports[ portId ] is undefined
FirstBad(portIds) ==
    CHOOSE i \in DOMAIN portIds :
        /\ portIds[i] \notin PortIds
        /\ \A j \in 1 .. i - 1 : portIds[j] \in PortIds

\* a then callback of call c throws (a property of undefined is read or
\* written): the rest of the chain is skipped and the catch at its end hands
\* the TypeError to _error
Thrown(c) ==
    /\ calls' = Settled([calls EXCEPT ![c].pc = "done", ![c].status = ErrorStatus])
    /\ swallowed' = swallowed + Swallows
    /\ UNCHANGED <<queue, pending, nextSeq, started, wire, completed, failed, invalid,
                   given, returned, budget, connVars>>

NewCall(kind, portIds, objs, pc, pvmReq) ==
    [NoCall EXCEPT !.kind = kind, !.portIds = portIds, !.objs = objs, !.pc = pc,
                   !.pvmReq = pvmReq, !.status = "pending",
                   !.modesAtCall = [i \in 1 .. Len(portIds) |->
                                      IF portIds[i] \in PortIds
                                      THEN ports[portIds[i]].mode ELSE "none"],
                   !.idleAtCall = \A p \in PortIds : ~ports[p].busy]

\* drive( {portId, direction, power} ) with portId and power given: the
\* first then only calls _pvm with the constant request of the port
drive(portId, direction, power) ==
    /\ CanCall
    /\ budget' = budget - 1
    /\ calls' = [calls EXCEPT ![Slot] =
            NewCall("drive", <<portId>>,
                    <<[portId |-> portId, direction |-> direction, power |-> power]>>,
                    "pvm", <<[portId |-> portId, pvmActive |-> FALSE]>>)]
    /\ UNCHANGED <<queueVars, histVars, connVars>>

\* the ports a _pvm request names
PvmIds(req) == [i \in DOMAIN req |-> req[i].portId]

\* the forEach of _pvm reaches a port id outside 0..3: the flags of the
\* entries before it are set, this.ports[portId].pvmActive throws
pvmThrows(c) ==
    /\ calls[c].pc = "pvm"
    /\ ~InRange(PvmIds(calls[c].pvmReq))
    /\ ports' = PvmApply(ports, SubSeq(calls[c].pvmReq, 1,
                                       FirstBad(PvmIds(calls[c].pvmReq)) - 1), 1)
    /\ Thrown(c)

\* _pvm with the promise of queue.add not returned: the caller goes on at once
_pvmNoReturn(c) ==
    /\ calls[c].pc = "pvm"
    /\ LET req == calls[c].pvmReq
           P1 == PvmApply(ports, req, 1)
       IN IF PvmChanged(ports, req, 1)
          THEN /\ Apply(QueueAdd([Cur EXCEPT !.ports = P1], "pvm", -1, PvmCommand(P1)))
               /\ calls' = [calls EXCEPT ![c].pc = "act", ![c].pvmSeq = nextSeq]
          ELSE /\ Apply(Cur)
               /\ calls' = [calls EXCEPT ![c].pc = "act"]
    /\ UNCHANGED <<histVars, budget, connVars>>

\* the then of _pvm: update pvmActive, and when a flag changed queue the PVM
\* frame and return its promise, so that the caller waits for it
_pvm(c) ==
    /\ calls[c].pc = "pvm"
    /\ InRange(PvmIds(calls[c].pvmReq))
    /\ LET req == calls[c].pvmReq
           P1 == PvmApply(ports, req, 1)
       IN IF PvmChanged(ports, req, 1)
          THEN /\ Apply(QueueAdd([Cur EXCEPT !.ports = P1], "pvm", -1, PvmCommand(P1)))
               /\ calls' = [calls EXCEPT ![c].pc = "pvmwait", ![c].waitSeq = nextSeq,
                                         ![c].pvmSeq = nextSeq]
          ELSE /\ Apply(Cur)
               /\ calls' = [calls EXCEPT ![c].pc = "act"]
    /\ UNCHANGED <<histVars, budget, connVars>>

\* whether drive queues a frame of its own
DriveEnqueuesAlways(port) == TRUE

DriveEnqueues(port) == ~port.busy

\* the second then of drive: record power and direction, queue the frame
driveThen(c) ==
    /\ calls[c].kind = "drive"
    /\ calls[c].pc = "act"
    /\ LET o == calls[c].objs[1]
           p == o.portId
           P1 == [ports EXCEPT ![p].power = ClampPower(o.power),
                               ![p].direction = ToDirection(o.direction)]
       IN IF DriveEnqueues(ports[p])
          THEN /\ Apply(QueueAdd([Cur EXCEPT !.ports = [P1 EXCEPT ![p].busy = TRUE]],
                                 "drive", p, <<>>))
               /\ calls' = [calls EXCEPT ![c].pc = "ret", ![c].frameSeq = nextSeq]
          ELSE /\ Apply([Cur EXCEPT !.ports = P1])
               /\ calls' = [calls EXCEPT ![c].pc = "ret"]
    /\ UNCHANGED <<histVars, budget, connVars>>

\* what the last then returns: the data of the ports asked for, read from
\* this.ports (drive returns the one entry itself, not an array)
ReturnValue(c) ==
    [i \in 1 .. Len(calls[c].portIds) |-> _getPortData(ports, calls[c].portIds[i])]

\* the last then of drive, quickDrive and stop
returnData(c) ==
    /\ calls[c].pc = "ret"
    /\ calls[c].after = "none"
    /\ calls' = Settled([calls EXCEPT
            ![c].pc = "done",
            ![c].status = "ok",
            ![c].data = ReturnValue(c)])
    /\ UNCHANGED <<queueVars, histVars, budget, connVars>>

\* quickDrive( portObjs ) with an array
quickDrive(portObjs) ==
    /\ CanCall
    /\ budget' = budget - 1
    /\ calls' = [calls EXCEPT ![Slot] =
            NewCall("quick", [i \in 1 .. Len(portObjs) |-> portObjs[i].portId],
                    portObjs, "act", <<>>)]
    /\ UNCHANGED <<queueVars, histVars, connVars>>

\* the forEach of quickDrive reaches an entry with a port id outside 0..3:
\* the entries before it are recorded, port.power = ... on undefined throws
quickDriveThrows(c) ==
    /\ calls[c].kind = "quick"
    /\ calls[c].pc = "act"
    /\ ~InRange(calls[c].portIds)
    /\ ports' = QuickApply(ports, SubSeq(calls[c].objs, 1,
                                         FirstBad(calls[c].portIds) - 1), 1)
    /\ Thrown(c)

\* the first then of quickDrive
quickDriveThen(c) ==
    /\ calls[c].kind = "quick"
    /\ calls[c].pc = "act"
    /\ InRange(calls[c].portIds)
    /\ LET P1 == QuickApply(ports, calls[c].objs, 1)
       IN IF _allPortsAreIdle(P1)
          THEN /\ Apply(QueueAdd([Cur EXCEPT !.ports = _setAllPortsBusy(P1)],
                                 "quick", -1, <<>>))
               /\ calls' = [calls EXCEPT ![c].pc = "ret", ![c].frameSeq = nextSeq]
          ELSE /\ Apply([Cur EXCEPT !.ports = P1])
               /\ calls' = [calls EXCEPT ![c].pc = "ret"]
    /\ UNCHANGED <<histVars, budget, connVars>>

\* stop( portIds ) with portIds not null
stop(portIds) ==
    /\ CanCall
    /\ budget' = budget - 1
    /\ calls' = [calls EXCEPT ![Slot] =
            [NewCall("stop", portIds, <<>>, "prep", <<>>) EXCEPT
                !.dataAtCall = [i \in 1 .. Len(portIds) |->
                                  IF portIds[i] \in PortIds
                                  THEN _getPortData(ports, portIds[i])
                                  ELSE [portId |-> portIds[i], direction |-> CLOCKWISE,
                                        power |-> MIN]]]]
    /\ UNCHANGED <<queueVars, histVars, connVars>>

\* the first forEach of stop reaches a port id outside 0..3: port.mode on
\* undefined throws before _pvm is called
stopPrepareThrows(c) ==
    /\ calls[c].kind = "stop"
    /\ calls[c].pc = "prep"
    /\ ~InRange(calls[c].portIds)
    /\ UNCHANGED ports
    /\ Thrown(c)

\* the first then of stop: the pvm request from the modes, then _pvm( array )
stopPrepare(c) ==
    /\ calls[c].kind = "stop"
    /\ calls[c].pc = "prep"
    /\ InRange(calls[c].portIds)
    /\ calls' = [calls EXCEPT ![c].pc = "pvm",
                              ![c].pvmReq = StopPvmRequest(ports, calls[c].portIds)]
    /\ UNCHANGED <<queueVars, histVars, budget, connVars>>

\* the second then of stop: zero the output ports, queue the break frame
stopThen(c) ==
    /\ calls[c].kind = "stop"
    /\ calls[c].pc = "act"
    /\ LET ids == calls[c].portIds
           command == StopCommand(ports, ids)
           P1 == StopPorts(ports, ids, 1)
       IN IF Len(command) > 1
          THEN /\ Apply(QueueAdd([Cur EXCEPT !.ports = P1], "break", -1, command))
               /\ calls' = [calls EXCEPT ![c].pc = "ret", ![c].frameSeq = nextSeq]
          ELSE /\ Apply([Cur EXCEPT !.ports = P1])
               /\ calls' = [calls EXCEPT ![c].pc = "ret"]
    /\ UNCHANGED <<histVars, budget, connVars>>

\* the promise a call starts with is rejected: no then callback of the chain
\* runs, and the catch at its end hands the message to _error
InputRejected ==
    /\ CanCall
    /\ budget' = budget - 1
    /\ invalid' = invalid + 1
    /\ swallowed' = swallowed + Swallows
    /\ UNCHANGED <<queueVars, completed, failed, calls, connVars, given, returned>>

\* portId !== undefined && direction !== undefined && power !== undefined,
\* where direction is portObj.direction || CLOCKWISE and so never undefined
DriveInputOkPortId(portObj) == "portId" \notin portObj.missing

DriveInputOk(portObj) ==
    /\ "portId" \notin portObj.missing
    /\ "power" \notin portObj.missing

\* drive( portObj ) with whatever the object holds
driveCall(portObj) ==
    IF DriveInputOk(portObj)
    THEN drive(portObj.portId, portObj.direction, portObj.power)
    ELSE InputRejected

\* Array.isArray( portObjs )
QuickInputOk(arg) == arg.isArray

\* quickDrive( portObjs ) with an array or with something else
quickDriveCall(arg) ==
    IF QuickInputOk(arg) THEN quickDrive(arg.objs) ELSE InputRejected

\* portIds !== null
StopInputOk(arg) == ~arg.isNull

\* stop( portIds ) with ids or with null
stopCall(arg) ==
    IF StopInputOk(arg) THEN stop(arg.ids) ELSE InputRejected

\* getSensor( portId, sensorSeries ) with portId not null
getSensor(portId) ==
    /\ CanCall
    /\ budget' = budget - 1
    /\ calls' = [calls EXCEPT ![Slot] =
            NewCall("sensor", <<portId>>, <<>>, "prep", <<>>)]
    /\ UNCHANGED <<queueVars, histVars, connVars>>

\* the first then of getSensor: the port becomes an input, then _pvm
getSensorPrepare(c) ==
    /\ calls[c].kind = "sensor"
    /\ calls[c].pc = "prep"
    /\ ports' = [ports EXCEPT ![calls[c].portIds[1]].mode = INPUT]
    /\ calls' = [calls EXCEPT ![c].pc = "pvm",
            ![c].pvmReq = <<[portId |-> calls[c].portIds[1], pvmActive |-> TRUE]>>]
    /\ UNCHANGED <<queue, pending, nextSeq, started, wire, histVars, budget, connVars>>

\* _adc( array_channels ): queue the query, whose generator writes it and
\* then reads the answer
_adc(S, array_channels) == QueueAdd(S, "adc", -1, <<CMD_ADC>> \o array_channels)

\* the second then of getSensor: query the two channels of the port
getSensorThen(c) ==
    /\ calls[c].kind = "sensor"
    /\ calls[c].pc = "act"
    /\ Apply(_adc(Cur, <<CMD_ADC_VOLT>> \o _getPortChannels(calls[c].portIds[1])))
    /\ calls' = [calls EXCEPT ![c].pc = "adcwait", ![c].waitSeq = nextSeq,
                              ![c].frameSeq = nextSeq]
    /\ UNCHANGED <<histVars, budget, connVars>>

\* getBattery() is _volt(), getTemp() is _temp(): the query is queued at once
getAdc(kind, channel) ==
    /\ CanCall
    /\ budget' = budget - 1
    /\ Apply(_adc(Cur, <<channel>>))
    /\ calls' = [calls EXCEPT ![Slot] =
            [NewCall(kind, <<>>, <<>>, "adcwait", <<>>) EXCEPT
                !.waitSeq = nextSeq, !.frameSeq = nextSeq]]
    /\ UNCHANGED <<histVars, connVars>>

getBattery == getAdc("battery", CMD_ADC_VOLT)

getTemp == getAdc("temp", CMD_ADC_TEMP)

-----------------------------------------------------------------------------
(* The transport and the connection *)

\* a call waiting for the promise of operation seq goes on or is rejected
Notify(C, seq, ok) ==
    [c \in DOMAIN C |->
        IF C[c].waitSeq = seq /\ C[c].pc \in {"pvmwait", "adcwait"}
        THEN IF ok
             THEN IF C[c].pc = "pvmwait"
                  THEN [C[c] EXCEPT !.pc = "act"]
                  ELSE [C[c] EXCEPT !.pc = "done", !.status = "ok"]
             ELSE IF debug /\ C[c].after = "disconnect"
                  THEN [C[c] EXCEPT !.pc = "ret"]
                  ELSE [C[c] EXCEPT !.pc = "done",
                          !.status = IF C[c].kind \in {"drive", "quick", "stop"}
                                     THEN ErrorStatus ELSE "rejected"]
        ELSE C[c]]

\* the calls of the application whose chain ends in the catch when the
\* operation they wait for is rejected
Failing(C, seq, ok) ==
    {c \in DOMAIN C :
        /\ ~ok
        /\ C[c].waitSeq = seq
        /\ C[c].pc \in {"pvmwait", "adcwait"}
        /\ C[c].kind \in {"drive", "quick", "stop"}
        /\ C[c].after = "none"}

\* the write of an ADC query succeeded: the generator goes on to read
adcWritten(op) ==
    /\ MicrotasksDone
    /\ op \in pending
    /\ op.kind = "adc"
    /\ op.phase = "write"
    /\ connected
    /\ pending' = (pending \ {op}) \cup {[op EXCEPT !.phase = "read"]}
    /\ UNCHANGED <<ports, queue, nextSeq, started, wire, histVars, calls, budget,
                   connVars>>

\* the promise of a running operation settles: the queue resolves or rejects
\* the promise of queue.add and runs the next operation
settle(op, ok) ==
    /\ MicrotasksDone
    /\ op \in pending
    /\ ok => connected
    /\ ~ok => (~connected \/ Cardinality(failed) < MaxFailures)
    /\ ~(op.kind = "adc" /\ op.phase = "write" /\ ok)
    /\ LET S1 == [Cur EXCEPT !.pending = @ \ {op}]
       IN Apply(IF DequeueOnSettle(ok) THEN Dequeue(S1) ELSE S1)
    /\ completed' = Append(completed, op.seq)
    /\ failed' = IF ok THEN failed ELSE failed \cup {op.seq}
    /\ UNCHANGED <<invalid, given, returned>>
    /\ swallowed' = swallowed + Swallows * Cardinality(Failing(calls, op.seq, ok))
    /\ calls' = Settled(Notify(calls, op.seq, ok))
    /\ UNCHANGED <<budget, connVars>>

\* the device did not answer the read of the firmware revision
NoVersion == [major |-> -1, minor |-> <<>>]

\* connect(): webbluetooth.connect resolved and the device is connected; the
\* read of the firmware revision is started and, as its promise is not
\* returned, the promise of connect() resolves
connectWithin(n) ==
    /\ MicrotasksDone
    /\ nconnects < n
    /\ connecting = "idle"
    /\ nconnects' = nconnects + 1
    /\ connected' = TRUE
    /\ connecting' = "firmware"
    /\ conns' = Append(conns, [version |-> NoVersion, result |-> "ok"])
    /\ UNCHANGED <<queueVars, histVars, calls, budget, keepalive, timers, nprobes,
                   debug>>

connect == connectWithin(MaxConnects)

\* parseFloat( version ), in hundredths: the digits after the point are
\* decimals
parseFloat(version) ==
    version.major * 100
      + (IF Len(version.minor) = 0 THEN 0
         ELSE IF Len(version.minor) = 1 THEN version.minor[1] * 10
         ELSE version.minor[1] * 10 + version.minor[2])

\* parseFloat(version) >= FIRMWARE_COMPATIBILITY; parseFloat(undefined) is NaN
Compatible(version) ==
    /\ version # NoVersion
    /\ parseFloat(version) >= FIRMWARE_COMPATIBILITY

\* disconnect(): rejected with 'Not connected' unless connected, else the
\* chain of stopAll() = stop([0, 1, 2, 3]) starts, with the then of
\* disconnect behind it
DisconnectCalls(C) ==
    IF connected
    THEN [C EXCEPT ![Slot] =
            [NewCall("stop", <<0, 1, 2, 3>>, <<>>, "prep", <<>>) EXCEPT
                !.dataAtCall = [i \in 1 .. 4 |-> _getPortData(ports, i - 1)],
                !.after = "disconnect"]]
    ELSE C

\* the then of getFirmwareVersion: with _debug off _error throws, and the
\* call of disconnect behind it is not reached
firmwareThen(version) ==
    /\ MicrotasksDone
    /\ connecting = "firmware"
    /\ connected <=> version # NoVersion
    /\ connecting' = "idle"
    /\ conns' = [conns EXCEPT ![nconnects].version = version]
    /\ IF Compatible(version)
       THEN /\ keepalive' = nconnects
            /\ timers' = timers \cup {nconnects}
            /\ UNCHANGED calls
       ELSE /\ UNCHANGED <<keepalive, timers>>
            /\ IF debug
               THEN /\ \E c \in DOMAIN calls : calls[c].pc = "none"
                    /\ calls' = DisconnectCalls(calls)
               ELSE UNCHANGED calls
    /\ UNCHANGED <<queueVars, histVars, budget, connected, nprobes, nconnects, debug>>

\* stopAll() has resolved, also after a failure when _debug is on: the then
\* of disconnect clears the interval and closes the connection
disconnectThen(c) ==
    /\ calls[c].pc = "ret"
    /\ calls[c].after = "disconnect"
    /\ timers' = timers \ {keepalive}
    /\ connected' = FALSE
    /\ calls' = Settled([calls EXCEPT ![c].pc = "done", ![c].status = "ok"])
    /\ UNCHANGED <<queueVars, histVars, budget, connecting, keepalive, nprobes,
                   nconnects, debug, conns>>

\* disconnect() called by the application
disconnect ==
    /\ CanCall
    /\ budget' = budget - 1
    /\ calls' = DisconnectCalls(calls)
    /\ swallowed' = IF connected THEN swallowed ELSE swallowed + Swallows
    /\ UNCHANGED <<queueVars, completed, failed, invalid, connVars, given, returned>>

\* the device went away; a read of the firmware revision that is pending
\* fails, and with _debug off the rejection ends the chain of the check
connectionLost ==
    /\ MicrotasksDone
    /\ connected
    /\ connected' = FALSE
    /\ connecting' = IF debug THEN connecting ELSE "idle"
    /\ UNCHANGED <<queueVars, histVars, calls, budget, keepalive, timers, nprobes,
                   nconnects, debug, conns>>

\* one tick of the interval set by _keepalive, with at most n probes
\* submitted over the whole run
keepaliveTickWithin(t, n) ==
    /\ MicrotasksDone
    /\ t \in timers
    /\ IF ~connected
       THEN /\ timers' = timers \ {keepalive}
            /\ UNCHANGED <<queueVars, nprobes>>
       ELSE /\ UNCHANGED timers
            /\ IF getQueueLength = 0
               THEN /\ nprobes < n
                    /\ nprobes' = nprobes + 1
                    /\ Apply(QueueAdd(Cur, "ka", -1, <<CMD_ADC, CMD_ADC_TEMP>>))
               ELSE UNCHANGED <<queueVars, nprobes>>
    /\ UNCHANGED <<histVars, calls, budget, connected, connecting, keepalive, nconnects,
                   debug, conns>>

keepaliveTick(t) == keepaliveTickWithin(t, MaxProbes)

-----------------------------------------------------------------------------

CallIds == 1 .. MaxActive

\* what the transport does with the operation that is running
TransportSteps ==
    \/ \E op \in pending : adcWritten(op)
    \/ \E op \in pending, ok \in BOOLEAN : settle(op, ok)

\* the steps of the calls in progress, of the queue and of the transport
Steps ==
    \/ \E c \in CallIds : _pvm(c)
    \/ \E c \in CallIds : driveThen(c)
    \/ \E c \in CallIds : returnData(c)
    \/ \E c \in CallIds : stopPrepare(c)
    \/ \E c \in CallIds : stopThen(c)
    \/ \E c \in CallIds : getSensorPrepare(c)
    \/ \E c \in CallIds : getSensorThen(c)
    \/ TransportSteps

\* every call of the class and the keepalive interval, on a connection to a
\* compatible device that stays up
Next ==
    \/ \E p \in PortInputs, d \in DirInputs, w \in SchedPowerInputs : drive(p, d, w)
    \/ \E o \in QuickInputs : quickDrive(o)
    \/ \E ids \in SchedStopInputs : stop(ids)
    \/ \E p \in PortInputs : getSensor(p)
    \/ getBattery
    \/ getTemp
    \/ \E c \in CallIds : quickDriveThen(c)
    \/ Steps
    \/ connect
    \/ \E v \in SchedFirmwareInputs : firmwareThen(v)
    \/ \E t \in timers : keepaliveTick(t)

\* the calls that work on the mode, the measurement and the power of a port
NextPorts ==
    \/ \E p \in PortInputs, d \in DirInputs, w \in PowerInputs : drive(p, d, w)
    \/ \E ids \in StopInputs : stop(ids)
    \/ \E p \in PortInputs : getSensor(p)
    \/ Steps
    \/ connect

\* the connection coming and going, the firmware check and the keepalive
\* interval, with the queries as traffic
NextConn ==
    \/ getBattery
    \/ getTemp
    \/ TransportSteps
    \/ connectWithin(MaxReconnects)
    \/ \E v \in FirmwareInputs : firmwareThen(v)
    \/ firmwareThen(NoVersion)
    \/ disconnect
    \/ \E c \in CallIds : stopPrepare(c)
    \/ \E c \in CallIds : _pvm(c)
    \/ \E c \in CallIds : stopThen(c)
    \/ \E c \in CallIds : disconnectThen(c)
    \/ connectionLost
    \/ \E t \in timers : keepaliveTick(t)

Spec == Init /\ [][Next]_vars

SpecConn == InitConn /\ [][NextConn]_vars

\* what goes on without the application or the device deciding it: the
\* callbacks that are ready, the answer to the firmware read, and the
\* transport settling the operation that is running
ConnProgress ==
    \/ \E c \in CallIds : stopPrepare(c)
    \/ \E c \in CallIds : _pvm(c)
    \/ \E c \in CallIds : stopThen(c)
    \/ \E c \in CallIds : disconnectThen(c)
    \/ \E v \in FirmwareInputs : firmwareThen(v)
    \/ firmwareThen(NoVersion)
    \/ TransportSteps

SpecConnFair == SpecConn /\ WF_vars(ConnProgress)

SpecPorts == InitPorts /\ [][NextPorts]_vars

\* the three calls that check their arguments, made with arguments of every
\* kind
NextArgs ==
    \/ \E o \in DriveArgs : driveCall(o)
    \/ \E a \in QuickArgs : quickDriveCall(a)
    \/ \E a \in StopArgs : stopCall(a)
    \/ \E c \in CallIds : _pvm(c)
    \/ \E c \in CallIds : driveThen(c)
    \/ \E c \in CallIds : quickDriveThen(c)
    \/ \E c \in CallIds : stopPrepare(c)
    \/ \E c \in CallIds : stopThen(c)
    \/ \E c \in CallIds : returnData(c)
    \/ \E op \in pending, ok \in BOOLEAN : settle(op, ok)
    \/ connect

SpecArgs == Init /\ [][NextArgs]_vars

\* drive and quickDrive with powers of every sign and size, next to a port
\* that getSensor has made an input
NextFrames ==
    \/ \E p \in PortInputs, d \in DirInputs, w \in ClampInputs : drive(p, d, w)
    \/ \E o \in QuickFrameInputs : quickDrive(o)
    \/ \E p \in SensorInputs : getSensor(p)
    \/ \E c \in CallIds : quickDriveThen(c)
    \/ \E c \in CallIds : _pvm(c)
    \/ \E c \in CallIds : driveThen(c)
    \/ \E c \in CallIds : returnData(c)
    \/ \E c \in CallIds : getSensorPrepare(c)
    \/ \E c \in CallIds : getSensorThen(c)
    \/ TransportSteps
    \/ connect

SpecFrames == Init /\ [][NextFrames]_vars

\* quickDrive arguments for a port that no drive call works on
QuickWireInputs == { <<[portId |-> 1, direction |-> 1, power |-> 300]>> }

\* the three calls that send power and direction to the device, interleaved
NextWire ==
    \/ \E p \in PortInputs, d \in DirInputs, w \in PowerInputs : drive(p, d, w)
    \/ \E o \in QuickWireInputs : quickDrive(o)
    \/ \E ids \in StopInputs : stop(ids)
    \/ \E c \in CallIds : _pvm(c)
    \/ \E c \in CallIds : driveThen(c)
    \/ \E c \in CallIds : quickDriveThen(c)
    \/ \E c \in CallIds : stopPrepare(c)
    \/ \E c \in CallIds : stopThen(c)
    \/ \E c \in CallIds : returnData(c)
    \/ \E op \in pending, ok \in BOOLEAN : settle(op, ok)
    \/ connect

SpecWire == InitPorts /\ [][NextWire]_vars

\* the keepalive interval with probe after probe, next to queries that keep
\* the transport busy
NextKeepalive ==
    \/ getBattery
    \/ getTemp
    \/ TransportSteps
    \/ connect
    \/ \E v \in SchedFirmwareInputs : firmwareThen(v)
    \/ \E t \in timers : keepaliveTickWithin(t, MaxTicks)

SpecKeepalive == Init /\ [][NextKeepalive]_vars

\* arguments with a port id outside 0..3, next to arguments that are
\* refused at once and arguments that are in order
DriveRangeArgs ==
    { [portId |-> 0, direction |-> 1, power |-> 300, missing |-> {}],
      [portId |-> 7, direction |-> 1, power |-> 300, missing |-> {}],
      [portId |-> 0, direction |-> 1, power |-> 0, missing |-> {"power"}] }
QuickRangeArgs ==
    { [isArray |-> TRUE,
       objs |-> <<[portId |-> 1, direction |-> 1, power |-> 300],
                  [portId |-> 7, direction |-> 0, power |-> 300]>>],
      [isArray |-> TRUE,
       objs |-> <<[portId |-> 1, direction |-> 0, power |-> 40]>>],
      [isArray |-> FALSE,
       objs |-> <<[portId |-> 1, direction |-> 0, power |-> 300]>>] }
StopRangeArgs ==
    { [isNull |-> FALSE, ids |-> <<0, 7>>],
      [isNull |-> FALSE, ids |-> <<1, 0>>],
      [isNull |-> TRUE, ids |-> <<>>] }

\* the three calls with arguments of these kinds
NextRange ==
    \/ \E o \in DriveRangeArgs : driveCall(o)
    \/ \E a \in QuickRangeArgs : quickDriveCall(a)
    \/ \E a \in StopRangeArgs : stopCall(a)
    \/ \E c \in CallIds : _pvm(c)
    \/ \E c \in CallIds : pvmThrows(c)
    \/ \E c \in CallIds : driveThen(c)
    \/ \E c \in CallIds : quickDriveThen(c)
    \/ \E c \in CallIds : quickDriveThrows(c)
    \/ \E c \in CallIds : stopPrepare(c)
    \/ \E c \in CallIds : stopPrepareThrows(c)
    \/ \E c \in CallIds : stopThen(c)
    \/ \E c \in CallIds : returnData(c)
    \/ \E op \in pending, ok \in BOOLEAN : settle(op, ok)
    \/ connect

SpecRange == Init /\ [][NextRange]_vars

\* the calls that set a busy flag, next to a getSensor call whose
\* operations stand in the queue before theirs
NextBusy ==
    \/ \E p \in PortInputs, d \in DirInputs, w \in SchedPowerInputs : drive(p, d, w)
    \/ \E o \in QuickFrameInputs : quickDrive(o)
    \/ \E p \in SensorInputs : getSensor(p)
    \/ \E c \in CallIds : quickDriveThen(c)
    \/ \E c \in CallIds : _pvm(c)
    \/ \E c \in CallIds : driveThen(c)
    \/ \E c \in CallIds : returnData(c)
    \/ \E c \in CallIds : getSensorPrepare(c)
    \/ \E c \in CallIds : getSensorThen(c)
    \/ TransportSteps
    \/ connect

\* what goes on without the application deciding it: the callbacks of the
\* calls in progress, and the transport ending the operation that is
\* running, with success or with failure
BusyProgress ==
    \/ \E c \in CallIds : quickDriveThen(c)
    \/ Steps

SpecBusyFair == Init /\ [][NextBusy]_vars /\ WF_vars(BusyProgress)

\* quickDrive arguments with an entry that has no power
QuickPowerInputs ==
    { <<[portId |-> 0, direction |-> 0, power |-> 300]>>,
      <<[portId |-> 0, direction |-> 1, power |-> undefined]>> }

\* the four calls that write the power and the direction of a port, with
\* quickDrive entries that have a power and entries that have none
NextPower ==
    \/ \E p \in PortInputs, d \in DirInputs, w \in ClampInputs : drive(p, d, w)
    \/ \E o \in QuickPowerInputs : quickDrive(o)
    \/ \E ids \in SchedStopInputs : stop(ids)
    \/ \E p \in SensorInputs : getSensor(p)
    \/ \E c \in CallIds : quickDriveThen(c)
    \/ Steps
    \/ connect

SpecPower == InitPorts /\ [][NextPower]_vars

\* port.power = Math.min(Math.max(parseInt(Math.abs(power)), MIN), MAX), the
\* statement of drive and of quickDrive, on a number of any size
clampPower ==
    /\ ~returned.done
    /\ returned' = [done |-> TRUE, value |-> ClampNumber(given)]
    /\ UNCHANGED <<queueVars, completed, failed, invalid, swallowed, given, calls,
                   budget, connVars>>

InitClamp ==
    /\ InitProgram(MaxCalls, _debug)
    /\ given \in NumberInputs
    /\ returned = NoResult

NextClamp == clampPower

SpecClamp == InitClamp /\ [][NextClamp]_vars

\* the calls that end in catch( e => this._error(e) ), with _debug on or
\* off, on a connection that can go away
NextErrors ==
    \/ \E o \in DriveArgs : driveCall(o)
    \/ \E a \in QuickArgs : quickDriveCall(a)
    \/ \E a \in StopArgs : stopCall(a)
    \/ disconnect
    \/ \E c \in CallIds : _pvm(c)
    \/ \E c \in CallIds : driveThen(c)
    \/ \E c \in CallIds : quickDriveThen(c)
    \/ \E c \in CallIds : stopPrepare(c)
    \/ \E c \in CallIds : stopThen(c)
    \/ \E c \in CallIds : returnData(c)
    \/ \E c \in CallIds : disconnectThen(c)
    \/ \E op \in pending, ok \in BOOLEAN : settle(op, ok)
    \/ connect
    \/ connectionLost

SpecErrors == InitConn /\ [][NextErrors]_vars

-----------------------------------------------------------------------------
(* Properties *)

Range(f) == {f[i] : i \in DOMAIN f}

\* the kinds of the operations that write a drive, quick-drive or break frame
FrameKinds == {"drive", "quick", "break"}

\* the operations submitted and not yet settled, as records with seq and kind
Waiting == Range(queue)

\* the command of the operation with submission number s, while it is queued
\* or running
QueuedCommand(q, s) ==
    LET it == {x \in Range(q) : x.seq = s}
    IN IF it = {} THEN <<>> ELSE (CHOOSE x \in it : TRUE).command

IsQueued(q, s, kind) == \E x \in Range(q) : x.seq = s /\ x.kind = kind

IsRunning(pend, s, kind) == \E x \in pend : x.seq = s /\ x.kind = kind

RunningFrame(pend, s) ==
    LET it == {x \in pend : x.seq = s}
    IN IF it = {} THEN <<>> ELSE (CHOOSE x \in it : TRUE).frame

\* C1: at most one operation of the scheduler is in flight at any time,
\* whatever its kind (drive, quick-drive, break, PVM, ADC write and read,
\* keepalive probe) and however the calls and the ticks interleave.
C1_OneInFlight == Cardinality(pending) <= 1

\* an ADC query is between its write and its read while another operation waits
C1_Witness ==
    \E op \in pending : op.kind = "adc" /\ op.phase = "read" /\ queue # <<>>

\* C2: the operations start, and settle, in exactly the order they were
\* submitted; a keepalive probe submitted between two commands is written
\* after the first and before the second.
C2_Fifo ==
    /\ \A i \in 1 .. Len(started) : started[i] = i
    /\ \A i \in 1 .. Len(completed) : completed[i] = i
    /\ \A i \in 1 .. Len(queue) : queue[i].seq = Len(started) + i

\* the probe runs, the command submitted before it has settled and the command
\* submitted after it still waits
C2_Witness ==
    \E op \in pending :
        /\ op.kind = "ka"
        /\ op.seq > 1
        /\ Len(completed) = op.seq - 1
        /\ queue # <<>>
        /\ Head(queue).seq = op.seq + 1
        /\ Head(queue).kind # "ka"

\* C3: when an operation fails with a transport error the scheduler does not
\* halt and drops nothing: every operation submitted is settled, running or
\* still queued, an operation waits only while another one runs, and the
\* operations behind the failed one start in the order of submission.
C3_FailureIndependent ==
    failed # {} =>
        /\ queue # <<>> => pending # {}
        /\ \A s \in 1 .. nextSeq - 1 :
              \/ s \in Range(completed)
              \/ \E op \in pending : op.seq = s
              \/ \E x \in Waiting : x.seq = s
        /\ \A i \in 1 .. Len(started) : started[i] = i

\* an operation that was queued behind the one that failed is running and
\* another one has already settled with success after the failure
C3_Witness ==
    \E op \in pending :
        /\ op.behind \in failed
        /\ op.seq > op.behind + 1
        /\ (op.seq - 1) \in Range(completed) \ failed

\* C4: when the write of a drive, quick-drive or break frame fails, the call
\* that queued the frame has the failure as its result.
C4_WriteFailureObserved ==
    [][\A op \in pending :
          (op.kind \in FrameKinds /\ settle(op, FALSE))
          => \E c \in CallIds :
                /\ calls[c].frameSeq = op.seq
                /\ Notify(calls, op.seq, FALSE)[c].status = "rejected"]_vars

\* C5: a drive, quickDrive or stop call resolves only once the frame it
\* queued has been run by the scheduler and its write has settled.
C5_ResolvesAfterWrite ==
    [][\A c \in CallIds :
          (returnData(c) /\ calls[c].frameSeq # 0)
          => calls[c].frameSeq \in Range(completed)]_vars

DriveQueued(p) == \E x \in Waiting : x.kind = "drive" /\ x.portId = p

DriveRunning(p) ==
    \E op \in pending : op.kind = "drive" /\ op.frame[2] = PORTS[p].hexId

C7_DriveRestoresOutput ==
    [][\A c \in CallIds :
          (/\ calls[c].modesAtCall = <<INPUT>>
           /\ driveThen(c)
           /\ nextSeq' > nextSeq)
          => ports'[calls[c].portIds[1]].mode = OUTPUT]_vars

\* the ports a drive or break frame names
NamedPorts(op) ==
    IF op.kind = "drive" THEN {op.frame[2]}
    ELSE {op.frame[i] : i \in 2 .. Len(op.frame)}

\* C8: when a drive or break frame is written every port it names is in
\* output mode.
C8_NoOutputToSensorPort ==
    \A op \in pending :
        op.kind \in {"drive", "break"}
        => \A h \in NamedPorts(op) : op.modes[h] = OUTPUT

\* a stop call for one port that was in input mode when stop was called
IsInputStop(c) ==
    /\ calls[c].kind = "stop"
    /\ calls[c].modesAtCall = <<INPUT>>

\* C9 as claimed: stop([p]) with p in input mode queues no frame of any kind
\* and leaves the power of p as it is.
C9_InputStopNoFrame ==
    [][\A c \in CallIds :
          (IsInputStop(c) /\ (_pvm(c) \/ stopThen(c)))
          => /\ nextSeq' = nextSeq
             /\ ports'[calls[c].portIds[1]].power = ports[calls[c].portIds[1]].power]_vars

\* C9 amended: stop([p]) with p in input mode queues no break frame and
\* leaves the power of p as it is; the one frame it can queue is the PVM
\* frame that takes p out of the measurement, when pvmActive was set.
C9_InputStopNoBreak ==
    [][\A c \in CallIds :
          IsInputStop(c) =>
            LET p == calls[c].portIds[1]
            IN /\ stopThen(c) =>
                    (nextSeq' = nextSeq /\ queue' = queue /\ pending' = pending
                     /\ ports'[p].power = ports[p].power)
               /\ _pvm(c) =>
                    /\ ports'[p].power = ports[p].power
                    /\ nextSeq' # nextSeq =>
                          /\ ports[p].pvmActive
                          /\ ~ports'[p].pvmActive
                          /\ \/ IsQueued(queue', nextSeq, "pvm")
                             \/ IsRunning(pending', nextSeq, "pvm")]_vars

\* stop([p]) has gone through both steps for an input port whose recorded
\* power is not 0, it queued a PVM frame and no break frame
C9_Witness ==
    \E c \in CallIds :
        /\ calls[c].kind = "stop"
        /\ calls[c].pc = "ret"
        /\ calls[c].modesAtCall = <<INPUT>>
        /\ calls[c].pvmSeq # 0
        /\ calls[c].frameSeq = 0
        /\ ports[calls[c].portIds[1]].mode = INPUT
        /\ ports[calls[c].portIds[1]].power > 0

\* the requested ports that are in output mode, in the order of the request
OutputIds(P, ids) == SelectSeq(ids, LAMBDA p : P[p].mode = OUTPUT)

\* C10: the step of stop(ids) that builds the frame sets the power of every
\* requested output port to 0; with at least one requested output port it
\* queues exactly one break frame, CMD_BREAK and the hexIds of exactly those
\* ports in the order of the request; with none it queues nothing.
C10_StopFrame ==
    [][\A c \in CallIds :
          stopThen(c) =>
            LET ids == calls[c].portIds
                out == OutputIds(ports, ids)
            IN /\ \A i \in 1 .. Len(ids) :
                    ports'[ids[i]].power =
                        IF ports[ids[i]].mode = OUTPUT THEN 0 ELSE ports[ids[i]].power
               /\ IF out # <<>>
                  THEN /\ nextSeq' = nextSeq + 1
                       /\ \/ /\ IsQueued(queue', nextSeq, "break")
                             /\ QueuedCommand(queue', nextSeq) = <<0>> \o out
                          \/ /\ IsRunning(pending', nextSeq, "break")
                             /\ RunningFrame(pending', nextSeq) = <<0>> \o out
                  ELSE nextSeq' = nextSeq /\ queue' = queue /\ pending' = pending]_vars

\* stop([1, 0]) with port 0 an input and port 1 an output has queued the
\* break frame [0x00, 0x01], and the power of port 1 is 0
C10_Witness ==
    \E c \in CallIds :
        /\ calls[c].kind = "stop"
        /\ calls[c].portIds = <<1, 0>>
        /\ calls[c].pc = "ret"
        /\ ports[0].mode = INPUT
        /\ ports[1].mode = OUTPUT
        /\ ports[1].power = 0
        /\ \/ QueuedCommand(queue, calls[c].frameSeq) = <<0, 1>>
           \/ RunningFrame(pending, calls[c].frameSeq) = <<0, 1>>

\* C11: whenever the write of a break frame has completed, the recorded
\* power of every port the frame names is 0, also when drive or quickDrive
\* calls on the port are interleaved with the stop.
C11_StopAckPowerZero ==
    [][\A op \in pending :
          (op.kind = "break" /\ settle(op, TRUE))
          => \A h \in NamedPorts(op) : ports'[h].power = 0]_vars

BusyFlags(P) == [p \in PortIds |-> P[p].busy]

\* C12: a quickDrive call made while one of the four ports is busy queues no
\* quick-drive frame and changes no busy flag; a call queues its frame only
\* when all four ports are idle, and the frame waits with all four ports
\* busy until the queue runs it.
C12_QuickDriveBusy ==
    [][\A c \in CallIds :
          quickDriveThen(c) =>
            /\ (~calls[c].idleAtCall \/ \E p \in PortIds : ports[p].busy)
                  => (/\ nextSeq' = nextSeq
                      /\ queue' = queue
                      /\ pending' = pending
                      /\ BusyFlags(ports') = BusyFlags(ports))
            /\ nextSeq' # nextSeq
                  => /\ \A p \in PortIds : ~ports[p].busy
                     /\ nextSeq' = nextSeq + 1
                     /\ \/ /\ IsQueued(queue', nextSeq, "quick")
                           /\ \A p \in PortIds : ports'[p].busy
                        \/ IsRunning(pending', nextSeq, "quick")]_vars

\* a quickDrive call made while the drive frame of port 0 waits has gone
\* past its queueing step without a frame, and port 0 is still the busy one
C12_Witness ==
    \E c \in CallIds :
        /\ calls[c].kind = "quick"
        /\ calls[c].pc = "ret"
        /\ ~calls[c].idleAtCall
        /\ calls[c].frameSeq = 0
        /\ ports[0].busy
        /\ ~ports[1].busy
        /\ DriveQueued(0)

\* C13: a drive(p, d, w) call resolves with the settings this call applied:
\* port p, direction 1 if d is truthy and 0 otherwise, power min(|w|, 255),
\* also when other calls on the port are in progress.
C13_DriveReturnsApplied ==
    [][\A c \in CallIds :
          (calls[c].kind = "drive" /\ returnData(c))
          => LET o == calls[c].objs[1]
             IN ReturnValue(c) =
                  <<[portId |-> o.portId,
                     direction |-> IF o.direction # 0 THEN 1 ELSE 0,
                     power |-> IF Abs(o.power) < 255 THEN Abs(o.power) ELSE 255]>>]_vars

\* C14: stop(ids) resolves with one entry per requested id, in the order of
\* the request: power 0 for a port that was in output mode, the direction
\* and power recorded before the call for a port in input mode.  (A port
\* never goes back to output mode, so a port in output mode at the end was
\* in output mode during the whole call.)
C14_StopReturn ==
    [][\A c \in CallIds :
          (calls[c].kind = "stop" /\ returnData(c))
          => LET ids == calls[c].portIds
                 res == ReturnValue(c)
             IN /\ Len(res) = Len(ids)
                /\ \A i \in 1 .. Len(ids) :
                      /\ res[i].portId = ids[i]
                      /\ ports[ids[i]].mode = OUTPUT => res[i].power = 0
                      /\ calls[c].modesAtCall[i] = INPUT
                            => res[i] = calls[c].dataAtCall[i]]_vars

\* C15: on a keepalive tick with the connection established, the probe
\* [0x0F, 0x09] is submitted exactly when no operation is waiting and none
\* is in flight; otherwise the tick submits nothing.
C15_ProbeIffIdle ==
    [][\A t \in timers :
          (connected /\ keepaliveTick(t))
          => /\ (queue = <<>> /\ pending = {})
                   <=> (/\ nextSeq' = nextSeq + 1
                        /\ \/ IsQueued(queue', nextSeq, "ka")
                           \/ IsRunning(pending', nextSeq, "ka"))
             /\ ~(queue = <<>> /\ pending = {})
                   => (nextSeq' = nextSeq /\ queue' = queue /\ pending' = pending)]_vars

\* C16: a keepalive tick that finds the connection lost stops its interval
\* and submits nothing.  (A handle is never used again, so an interval that
\* has left the running ones has no later tick and submits no later probe.)
C16_LostTickStopsTimer ==
    [][\A t \in timers :
          (~connected /\ keepaliveTick(t))
          => /\ t \notin timers'
             /\ nextSeq' = nextSeq
             /\ queue' = queue
             /\ pending' = pending]_vars

\* the number after the point of a firmware revision string
MinorNumber(digits) ==
    IF Len(digits) = 0 THEN 0
    ELSE IF Len(digits) = 1 THEN digits[1]
    ELSE digits[1] * 10 + digits[2]

\* the device reported a firmware revision older than 4.17
Below417(version) ==
    /\ version # NoVersion
    /\ \/ version.major < 4
       \/ version.major = 4 /\ MinorNumber(version.minor) < 17

\* C17: for a connection whose device reported a firmware version below
\* 4.17 the keepalive interval is never started, so no tick of it submits
\* a probe.
C17_NoKeepaliveBelow417 ==
    \A n \in DOMAIN conns : Below417(conns[n].version) => n \notin timers

\* C18: whenever the device of the current connection has reported a
\* firmware version below 4.17, the connection is eventually closed,
\* whatever the debug flag is.
C18_TeardownBelow417 ==
    \A n \in 1 .. MaxReconnects :
        (nconnects = n /\ n \in DOMAIN conns /\ Below417(conns[n].version))
            ~> ~connected

\* C19: a connect() call to a device that reports a firmware version below
\* 4.17 is rejected, it does not succeed.
C19_ConnectRejectedBelow417 ==
    \A n \in DOMAIN conns :
        Below417(conns[n].version) => conns[n].result = "rejected"

\* the step changes nothing of the queue, of the operations in flight or of
\* the ports, and leaves no call in progress behind that could do so later
NoTraffic ==
    /\ queue' = queue
    /\ pending' = pending
    /\ nextSeq' = nextSeq
    /\ started' = started
    /\ ports' = ports
    /\ calls' = calls

C21_ErrorsReachCaller == swallowed = 0

\* the disconnect call c ends with this step: its then has run, or the
\* operation its stopAll waits for is rejected and the rejection ends it
DisconnectEnds(c) ==
    \/ disconnectThen(c)
    \/ /\ calls[c].after = "disconnect"
       /\ calls[c].pc = "pvmwait"
       /\ connected
       /\ ~debug
       /\ \E op \in pending : op.seq = calls[c].waitSeq /\ settle(op, FALSE)

\* C22: when a disconnect call made on a connection that is up has ended,
\* the interval of this.keepalive is stopped and the transport is released;
\* from then on a tick submits no probe, and the transport is connected
\* again only by a new connect.
C22_DisconnectStopsKeepalive ==
    [][/\ \A c \in CallIds :
             DisconnectEnds(c) => (keepalive \notin timers' /\ ~connected')
       /\ \A t \in timers :
             (~connected /\ keepaliveTick(t))
                => (nextSeq' = nextSeq /\ queue' = queue /\ pending' = pending)
       /\ (~connected /\ connected') => nconnects' = nconnects + 1]_vars

\* the command of operation s, queued or started by this step
SubmittedCommand(s) ==
    IF QueuedCommand(queue', s) # <<>> THEN QueuedCommand(queue', s)
    ELSE RunningFrame(pending', s)

ActiveAfter == {i \in PortIds : ports'[i].pvmActive}

\* C24: the PVM frame a _pvm step builds is 0x2C followed by the channels
\* 2i, 2i+1 of every port i whose pvmActive flag is true at that moment, in
\* ascending order of i, and nothing else; with no such port it is [0x2C].
C24_PvmFrame ==
    [][\A c \in CallIds :
          (_pvm(c) /\ nextSeq' # nextSeq)
          => LET cmd == SubmittedCommand(nextSeq)
             IN /\ Len(cmd) = 1 + 2 * Cardinality(ActiveAfter)
                /\ cmd[1] = 44
                /\ \A i \in ActiveAfter :
                      LET k == Cardinality({j \in ActiveAfter : j < i})
                      IN /\ cmd[2 + 2 * k] = 2 * i
                         /\ cmd[3 + 2 * k] = 2 * i + 1
                /\ ActiveAfter = {} => cmd = <<44>>]_vars

\* the PVM frame that switches the last measurement off is being written
C24_Witness ==
    /\ \A i \in PortIds : ~ports[i].pvmActive
    /\ \E op \in pending : op.kind = "pvm" /\ op.frame = <<CMD_PVM>>

\* the operations whose generator this step runs
Started == {op \in pending' : op.seq \notin {x.seq : x \in pending}}

\* C25: the quick-drive frame is four bytes, byte i for port i, computed from
\* the record of the port at the moment the frame is built for writing:
\* floor(power * 127 / 255) * 2 + direction for a port in output mode, 0 for
\* a port in input mode.
C25_QuickDriveFrame ==
    [][\A op \in Started :
          op.kind = "quick"
          => /\ Len(op.frame) = 4
             /\ \A i \in PortIds :
                   op.frame[i + 1] =
                      IF ports'[i].mode = OUTPUT
                      THEN ((ports'[i].power * 127) \div 255) * 2 + ports'[i].direction
                      ELSE 0]_vars

\* quickDrive of ports 0 and 1 at power 255 clockwise, ports 2 and 3 at
\* power 0: the frame being written is [254, 254, 0, 0]
C25_Witness ==
    \E op \in pending :
        /\ op.kind = "quick"
        /\ op.frame = <<254, 254, 0, 0>>
        /\ \A i \in PortIds : ports[i].mode = OUTPUT

\* |p| of a number given by sign and digits, capped at 1000
AbsCapped(number) ==
    IF Len(number.digits) > 3 THEN 1000 ELSE DigitsValue(number.digits)

\* C26: for every integer p, negative or not, the power that drive and
\* quickDrive record is min(max(|p|, 0), 255).
C26_Clamp ==
    returned.done
        => returned.value = Min2(Max2(AbsCapped(given), 0), 255)

\* C27: in every reachable state, whatever validated drive, quickDrive, stop
\* and getSensor calls were made (quickDrive entries with or without a
\* power), the recorded power of every port is an integer in 0..255 and its
\* recorded direction is 0 or 1
C27_PowerInRange ==
    \A p \in PortIds :
        /\ ports[p].power \in MIN .. MAX
        /\ ports[p].direction \in {CLOCKWISE, COUNTERCLOCKWISE}

\* this step puts a PVM frame into the queue
PvmEnqueued ==
    /\ nextSeq' = nextSeq + 1
    /\ \/ \E i \in DOMAIN queue' : queue'[i].seq = nextSeq /\ queue'[i].kind = "pvm"
       \/ \E op \in pending' : op.seq = nextSeq /\ op.kind = "pvm"

\* this step changes the pvmActive flag of a port
PvmActiveChanged == \E p \in PortIds : ports'[p].pvmActive # ports[p].pvmActive

\* C28: a PVM frame is put into the queue only by a step of drive, stop or
\* getSensor that changes the pvmActive flag of at least one port; when _pvm
\* changes no flag, the call puts nothing into the queue in that step.
C28_PvmOnlyOnChange ==
    [][/\ PvmEnqueued => PvmActiveChanged
       /\ \A c \in CallIds :
             _pvm(c) /\ ~PvmActiveChanged => nextSeq' = nextSeq /\ queue' = queue]_vars

\* a drive call has gone through _pvm without a frame (the flag of its port
\* was off already) while the PVM frame of a getSensor call, which switched
\* a flag on, is in the queue or being written
C28_Witness ==
    /\ \E c \in CallIds :
          calls[c].kind = "drive" /\ calls[c].pc = "act" /\ calls[c].pvmSeq = 0
    /\ \E c \in CallIds :
          calls[c].kind = "sensor" /\ calls[c].pc = "pvmwait" /\ calls[c].pvmSeq # 0

\* C29: the keepalive path never changes the state of a port: a tick of the
\* interval, and the step in which the queue runs a keepalive probe, leave
\* power, direction, mode, busy and pvmActive of every port as they were.
C29_KeepaliveLeavesPorts ==
    [][/\ \A t \in timers : keepaliveTick(t) => ports' = ports
       /\ \A op \in Started : op.kind = "ka" => ports' = ports]_vars

\* a keepalive probe is being written while a port is busy with a frame that
\* waits behind it
C29_Witness ==
    /\ \E op \in pending : op.kind = "ka"
    /\ \E p \in PortIds : ports[p].busy

\* C30: the drive frame of port p handed to the transport is
\* [CMD_DRIVE, p, direction, power] with the direction and the power recorded
\* for port p when the queue starts the operation, whatever they were when
\* the operation was submitted.
C30_DriveFrameAtStart ==
    [][\A op \in Started :
          op.kind = "drive"
          => \E p \in PortIds :
                op.frame = <<CMD_DRIVE, PORTS[p].hexId, ports'[p].direction,
                             ports'[p].power>>]_vars

\* C31: a busy flag that is set is cleared later on, as long as the callbacks
\* run and the transport ends every operation, with success or with failure;
\* no port stays busy for ever.  (Busy leads to not busy for port p exactly
\* when port p is not busy again and again.)
C31_BusyCleared == \A p \in PortIds : []<>(~ports[p].busy)

\* the drive frame of port 0 waited behind an operation that has failed, and
\* has been started since: the port is no longer busy
C31_Witness ==
    /\ ~ports[0].busy
    /\ \E op \in pending : op.kind = "drive" /\ op.behind \in failed

\* C32: in every reachable state a port in output mode has pvmActive false;
\* the periodic measurement is on for input ports only.
C32_PvmOnlyOnInputs ==
    \A p \in PortIds : ports[p].mode = OUTPUT => ~ports[p].pvmActive

\* nothing waits, nothing is being written, no call is in progress, and no
\* write has failed
Drained ==
    /\ queue = <<>>
    /\ pending = {}
    /\ \A c \in CallIds : calls[c].kind = "none"
    /\ failed = {}

\* the last frame that addressed port p was built from what is recorded for
\* the port now
Agrees(p) ==
    LET w == wire.cmd[p]
    IN CASE w.kind = "drive" ->
                w.frame = <<CMD_DRIVE, PORTS[p].hexId, ports[p].direction, ports[p].power>>
         [] w.kind = "quick" ->
                w.frame[p + 1] = ((ports[p].power * 127) \div 255) * 2 + ports[p].direction
         [] w.kind = "break" -> ports[p].power = 0
         [] OTHER -> TRUE

\* C33: once the queue has drained and no call is in progress, without any
\* failed write, the record of every output port agrees with the last command
\* written for that port (drive frame, quick-drive byte or break frame),
\* whatever the interleaving of drive, quickDrive and stop calls was.
C33_RecordAgreesWithWire ==
    Drained => \A p \in PortIds : ports[p].mode = OUTPUT => Agrees(p)

\* the ports whose pvmActive flag is set
ActiveNow == {i \in PortIds : ports[i].pvmActive}

\* C34: once the queue has drained and no call is in progress, with at least
\* one PVM frame written and no failed write, the last PVM frame written lists
\* the channels 2i, 2i+1 of exactly the ports i whose pvmActive flag is true,
\* whatever the interleaving of getSensor, drive and stop calls was.
C34_LastPvmFrameMatchesFlags ==
    (Drained /\ wire.pvm.kind = "pvm")
    => LET cmd == wire.pvm.frame
       IN /\ Len(cmd) = 1 + 2 * Cardinality(ActiveNow)
          /\ \A i \in ActiveNow :
                LET k == Cardinality({j \in ActiveNow : j < i})
                IN /\ cmd[2 + 2 * k] = 2 * i
                   /\ cmd[3 + 2 * k] = 2 * i + 1

\* all has drained after getSensor made port 0 an input and a stop switched
\* its measurement off again: the last PVM frame lists no channel
C34_Witness ==
    /\ Drained
    /\ ports[0].mode = INPUT
    /\ wire.pvm = [kind |-> "pvm", frame |-> <<CMD_PVM>>]

\* C35: from the write of an ADC query to the end of its read no other frame
\* is handed to the transport: in a step that leaves an ADC operation
\* running, the queue starts no operation (keepalive probe, drive, break,
\* quick-drive or PVM frame, or another query).
C35_AdcNotInterleaved ==
    [][\A op \in pending :
          (op.kind = "adc" /\ \E x \in pending' : x.seq = op.seq)
          => Started = {}]_vars

\* a query has been written and its answer is being read while a keepalive
\* probe waits in the queue
C35_Witness ==
    /\ \E op \in pending : op.kind = "adc" /\ op.phase = "read"
    /\ \E i \in DOMAIN queue : queue[i].kind = "ka"

\* the keepalive probes that wait in the queue
WaitingProbes == {i \in DOMAIN queue : queue[i].kind = "ka"}

\* C36: at any time at most one keepalive probe is waiting in the queue
\* (submitted and not yet started), however long the operations before it
\* take and however many ticks pass.
C36_OneProbeWaiting == Cardinality(WaitingProbes) <= 1

\* a probe is being written, the probe submitted by a later tick waits
\* behind it, and one more probe may still be submitted
C36_Witness ==
    /\ Cardinality(WaitingProbes) = 1
    /\ \E op \in pending : op.kind = "ka"
    /\ nprobes < MaxTicks

\* C37: at most one keepalive interval is running at any time, whatever the
\* sequence of connect, disconnect and connection-loss events is.
C37_OneTimer == Cardinality(timers) <= 1

\* call c ends in this step because a port id of its input is outside 0..3
RangeRejected(c) == pvmThrows(c) \/ quickDriveThrows(c) \/ stopPrepareThrows(c)

\* C38: a drive, quickDrive or stop call that is rejected for its argument
\* or for a port id outside 0..3 anywhere in its input leaves power,
\* direction, mode, pvmActive and busy of every port as they were: neither
\* the step that makes the call nor the step that rejects it changes a port.
C38_RejectedCallLeavesPorts ==
    [][/\ budget' # budget => ports' = ports
       /\ invalid' # invalid => ports' = ports
       /\ \A c \in CallIds : RangeRejected(c) => ports' = ports]_vars

\* C39: disconnect releases the transport only after the break frame that
\* its stopAll step has queued is written: in the step that closes the
\* connection that frame neither waits in the queue nor is being written.
C39_ReleaseAfterBreak ==
    [][\A c \in CallIds :
          (disconnectThen(c) /\ calls[c].frameSeq # 0)
          => /\ ~IsQueued(queue, calls[c].frameSeq, "break")
             /\ ~IsRunning(pending, calls[c].frameSeq, "break")]_vars

====
